---- MODULE Spec2Model ----
(***************************************************************************)
(* The alats package initializer (src/alats__init__.py) as a state machine. *)
(* The module body is three statements: the docstring, the assignment of   *)
(* __version__ and the assignment of __author__.  Python executes them in  *)
(* order when the package is first imported; afterwards consumers read the *)
(* module's attributes.  String values are sequences of one-character      *)
(* strings so that their contents can be inspected.                        *)
(***************************************************************************)
EXTENDS Naturals, Sequences, FiniteSets

VARIABLES pc, doc, ns, exc, io, tasks, last

vars == << pc, doc, ns, exc, io, tasks, last >>

\* Bounds on the process state that exists before the package is imported.
MaxIO == 2
MaxTasks == 2

\* Names a consumer may look up on the module besides __doc__: the two the
\* body assigns and two it does not.
Names == {"__version__", "__author__", "main", "run"}

LookupNames == Names \cup {"__doc__"}

\* Python values: None, an unbound name, a str, a function.
None == [kind |-> "NoneType", val |-> << >>]

Unbound == [kind |-> "unbound", val |-> << >>]

Str(s) == [kind |-> "str", val |-> s]

Function(s) == [kind |-> "function", val |-> s]

\* A docstring whose version line was left at an earlier release.
DocstringStale ==
    << "\n", "A", "u", "t", "o", "n", "o", "m", "o", "u", "s", " ", "L", "i", "q",
      "u", "i", "d", "i", "t", "y", "-", "A", "d", "a", "p", "t", "i", "v", "e",
      " ", "T", "r", "a", "d", "i", "n", "g", " ", "S", "y", "s", "t", "e", "m",
      " ", "(", "A", "L", "A", "T", "S", ")", "\n", "V", "e", "r", "s", "i", "o",
      "n", ":", " ", "0", ".", "9", ".", "0", "\n", "M", "i", "s", "s", "i", "o",
      "n", ":", " ", "A", "u", "t", "o", "n", "o", "m", "o", "u", "s", " ", "m",
      "a", "n", "a", "g", "e", "m", "e", "n", "t", " ", "o", "f", " ", "t", "r",
      "a", "d", "i", "n", "g", " ", "s", "t", "r", "a", "t", "e", "g", "i", "e",
      "s", " ", "w", "i", "t", "h", " ", "d", "y", "n", "a", "m", "i", "c", " ",
      "l", "i", "q", "u", "i", "d", "i", "t", "y", " ", "a", "d", "a", "p", "t",
      "a", "t", "i", "o", "n", "\n" >>

\* The module docstring, lines 1-5: the text between the triple quotes.
Docstring ==
    << "\n", "A", "u", "t", "o", "n", "o", "m", "o", "u", "s", " ", "L", "i", "q",
      "u", "i", "d", "i", "t", "y", "-", "A", "d", "a", "p", "t", "i", "v", "e",
      " ", "T", "r", "a", "d", "i", "n", "g", " ", "S", "y", "s", "t", "e", "m",
      " ", "(", "A", "L", "A", "T", "S", ")", "\n", "V", "e", "r", "s", "i", "o",
      "n", ":", " ", "1", ".", "0", ".", "0", "\n", "M", "i", "s", "s", "i", "o",
      "n", ":", " ", "A", "u", "t", "o", "n", "o", "m", "o", "u", "s", " ", "m",
      "a", "n", "a", "g", "e", "m", "e", "n", "t", " ", "o", "f", " ", "t", "r",
      "a", "d", "i", "n", "g", " ", "s", "t", "r", "a", "t", "e", "g", "i", "e",
      "s", " ", "w", "i", "t", "h", " ", "d", "y", "n", "a", "m", "i", "c", " ",
      "l", "i", "q", "u", "i", "d", "i", "t", "y", " ", "a", "d", "a", "p", "t",
      "a", "t", "i", "o", "n", "\n" >>

\* A version literal bumped without the rest of the package.
VersionLiteralBumped == << "1", ".", "0", ".", "1" >>

\* The right-hand side of line 7.
VersionLiteral == << "1", ".", "0", ".", "0" >>

\* An author literal with the last word dropped.
AuthorLiteralTruncated ==
    << "E", "v", "o", "l", "u", "t", "i", "o", "n", " ", "E", "c", "o", "s", "y",
      "s", "t", "e", "m", " ", "A", "L", "A", "T", "S" >>

\* The right-hand side of line 8.
AuthorLiteral ==
    << "E", "v", "o", "l", "u", "t", "i", "o", "n", " ", "E", "c", "o", "s", "y",
      "s", "t", "e", "m", " ", "A", "L", "A", "T", "S", " ", "T", "e", "a", "m" >>

NoAccess == [op |-> "none", name |-> "", outcome |-> "none", val |-> << >>]

\* Before the import: a fresh module object (its __doc__ is None and no name
\* of the body is bound), no exception, and whatever I/O and tasks the
\* process already has.
Init ==
    /\ pc = "start"
    /\ doc = None
    /\ ns = [n \in Names |-> Unbound]
    /\ exc = "none"
    /\ io \in 0..MaxIO
    /\ tasks \in 0..MaxTasks
    /\ last = NoAccess

\* Lines 1-5: the leading string expression becomes the module's __doc__.
LoadDocstring ==
    /\ pc = "start"
    /\ doc' = Str(Docstring)
    /\ pc' = "docstring"
    /\ UNCHANGED << ns, exc, io, tasks, last >>

\* Line 7 written as a call that reports the version while defining it.
LoadVersionPrints ==
    /\ pc = "docstring"
    /\ ns' = [ns EXCEPT !["__version__"] = Str(VersionLiteral)]
    /\ io' = io + 1
    /\ pc' = "version"
    /\ UNCHANGED << doc, exc, tasks, last >>

\* Line 7: __version__ = "1.0.0"
LoadVersion ==
    /\ pc = "docstring"
    /\ ns' = [ns EXCEPT !["__version__"] = Str(VersionLiteral)]
    /\ pc' = "version"
    /\ UNCHANGED << doc, exc, io, tasks, last >>

\* Line 8 with the target of line 7 repeated.
LoadAuthorWrongTarget ==
    /\ pc = "version"
    /\ ns' = [ns EXCEPT !["__version__"] = Str(AuthorLiteral)]
    /\ pc' = "loaded"
    /\ UNCHANGED << doc, exc, io, tasks, last >>

\* Line 8 followed by the definition of an entry point.
LoadAuthorAndMain ==
    /\ pc = "version"
    /\ ns' = [ns EXCEPT !["__author__"] = Str(AuthorLiteral),
                        !["main"] = Function(<< "m", "a", "i", "n" >>)]
    /\ pc' = "loaded"
    /\ UNCHANGED << doc, exc, io, tasks, last >>

\* Line 8: __author__ = "Evolution Ecosystem ALATS Team"; the body ends here.
LoadAuthor ==
    /\ pc = "version"
    /\ ns' = [ns EXCEPT !["__author__"] = Str(AuthorLiteral)]
    /\ pc' = "loaded"
    /\ UNCHANGED << doc, exc, io, tasks, last >>

Load == LoadDocstring \/ LoadVersion \/ LoadAuthor

\* The value of attribute n of the module.
Lookup(n) == IF n = "__doc__" THEN doc ELSE ns[n]

\* A consumer reads attribute n of the loaded module.
Read(n) ==
    /\ pc = "loaded"
    /\ last' = IF Lookup(n).kind = "unbound"
               THEN [op |-> "read", name |-> n, outcome |-> "AttributeError",
                     val |-> << >>]
               ELSE [op |-> "read", name |-> n, outcome |-> "value",
                     val |-> Lookup(n).val]
    /\ UNCHANGED << pc, doc, ns, exc, io, tasks >>

\* A consumer calls attribute n of the loaded module.
Call(n) ==
    /\ pc = "loaded"
    /\ last' = CASE Lookup(n).kind = "unbound" ->
                      [op |-> "call", name |-> n, outcome |-> "AttributeError",
                       val |-> << >>]
                 [] Lookup(n).kind \in {"function", "class"} ->
                      [op |-> "call", name |-> n, outcome |-> "called",
                       val |-> << >>]
                 [] OTHER ->
                      [op |-> "call", name |-> n, outcome |-> "TypeError",
                       val |-> << >>]
    /\ UNCHANGED << pc, doc, ns, exc, io, tasks >>

Next ==
    \/ LoadDocstring
    \/ LoadVersion
    \/ LoadAuthor
    \/ \E n \in LookupNames : Read(n)
    \/ \E n \in LookupNames : Call(n)

Spec == Init /\ [][Next]_vars

\* The interpreter runs the statements of a module body one after another
\* without waiting on anything.
FairSpec == Spec /\ WF_vars(Load)

TypeOK ==
    /\ pc \in {"start", "docstring", "version", "loaded"}
    /\ doc.kind \in {"NoneType", "str"}
    /\ \A n \in Names : ns[n].kind \in {"unbound", "str", "function"}
    /\ io \in Nat
    /\ tasks \in Nat
    /\ last.op \in {"none", "read", "call"}

----------------------------------------------------------------------------
\* Properties.

\* C1: once the package is loaded, __version__ is the string "1.0.0", and
\* that is what a consumer reading it gets.
C1_VersionValue ==
    pc = "loaded" =>
        /\ ns["__version__"] = Str(<< "1", ".", "0", ".", "0" >>)
        /\ (last.op = "read" /\ last.name = "__version__") =>
               (last.outcome = "value" /\ last.val = << "1", ".", "0", ".", "0" >>)

C1_VersionRead ==
    /\ pc = "loaded"
    /\ last.op = "read"
    /\ last.name = "__version__"
    /\ last.outcome = "value"

C2_ExpectedAuthor ==
    << "E", "v", "o", "l", "u", "t", "i", "o", "n", " ", "E", "c", "o", "s", "y",
      "s", "t", "e", "m", " ", "A", "L", "A", "T", "S", " ", "T", "e", "a", "m" >>

\* C2: once the package is loaded, __author__ is the string
\* "Evolution Ecosystem ALATS Team", and that is what a consumer reading it
\* gets.
C2_AuthorValue ==
    pc = "loaded" =>
        /\ ns["__author__"] = Str(C2_ExpectedAuthor)
        /\ (last.op = "read" /\ last.name = "__author__") =>
               (last.outcome = "value" /\ last.val = C2_ExpectedAuthor)

C2_AuthorRead ==
    /\ pc = "loaded"
    /\ last.op = "read"
    /\ last.name = "__author__"
    /\ last.outcome = "value"

\* What a step of the load may change: the position in the body, the
\* module's __doc__ and the bindings of __version__ and __author__.
C3_LoadFrame ==
    /\ io' = io
    /\ tasks' = tasks
    /\ exc' = "none"
    /\ last' = last
    /\ \A n \in Names \ {"__version__", "__author__"} : ns'[n] = ns[n]

C4_ConstantsNeverChange ==
    [][\A n \in {"__version__", "__author__"} :
           ns[n].kind # "unbound" => ns'[n] = ns[n]]_vars

C4_LoadedAndUsed ==
    /\ pc = "loaded"
    /\ last.op = "call"
    /\ ns["__version__"] = Str(VersionLiteral)
    /\ ns["__author__"] = Str(AuthorLiteral)

\* The names of the module that are bound.
C5_Defined == {n \in Names : ns[n].kind # "unbound"}

Breaks(s) == {i \in 1..Len(s) : s[i] = "\n"}

\* The position of the k-th line break of s; position 0 before the first
\* and Len(s) + 1 after the last.
Break(s, k) ==
    IF k = 0 THEN 0
    ELSE IF k > Cardinality(Breaks(s)) THEN Len(s) + 1
    ELSE CHOOSE i \in Breaks(s) :
             Cardinality({j \in Breaks(s) : j < i}) = k - 1

\* s split at every "\n", as str.split does.
SplitLines(s) ==
    [k \in 1..(Cardinality(Breaks(s)) + 1) |->
        SubSeq(s, Break(s, k - 1) + 1, Break(s, k) - 1)]

\* The lines of a docstring's text: the blank line that follows the opening
\* quotes is not counted.
RECURSIVE DropLeadingBlank(_)
DropLeadingBlank(ls) ==
    IF ls # << >> /\ Head(ls) = << >> THEN DropLeadingBlank(Tail(ls)) ELSE ls

DocLines(d) == DropLeadingBlank(SplitLines(d))

VersionPrefix == << "V", "e", "r", "s", "i", "o", "n", ":", " " >>

StartsWith(s, p) == Len(s) >= Len(p) /\ SubSeq(s, 1, Len(p)) = p

AnnouncesVersion(d) ==
    Len(DocLines(d)) >= 2 /\ StartsWith(DocLines(d)[2], VersionPrefix)

AnnouncedVersion(d) ==
    SubSeq(DocLines(d)[2], Len(VersionPrefix) + 1, Len(DocLines(d)[2]))

\* C6: the second line of the docstring's text reads "Version: " followed
\* by exactly the value of __version__.
C6_DocstringVersionMatches ==
    (doc.kind = "str" /\ ns["__version__"].kind = "str") =>
        /\ AnnouncesVersion(doc.val)
        /\ AnnouncedVersion(doc.val) = ns["__version__"].val

C6_DocAndVersionRead ==
    /\ pc = "loaded"
    /\ last.op = "read"
    /\ last.name = "__doc__"
    /\ last.outcome = "value"
    /\ AnnouncesVersion(last.val)
    /\ ns["__version__"].kind = "str"

====
